---- MODULE Spec2Model ----
(***************************************************************************)
(* Model of the Sinople semantic processor                                 *)
(* (src/wasm/semantic_processor/src/lib.rs).                                *)
(*                                                                         *)
(* Text is modelled as a sequence of tokens: the delimiter characters      *)
(* ":", "/", "#" are tokens of their own, a run of other characters is one *)
(* token.  Splitting on a delimiter and concatenation are therefore exact. *)
(*                                                                         *)
(* The store is a sophia_inmem 0.8 FastGraph: a term index that numbers    *)
(* terms in order of first occurrence, and an ordered SET of index triples *)
(* [s, p, o]; triples() walks that set in ascending order.                 *)
(*                                                                         *)
(* graph and namespaces are the fields of SemanticProcessor.  call is the  *)
(* last call with its argument and return value.  log and before are       *)
(* history: the triples inserted since creation or the last clear(), in    *)
(* insertion order, and the triples that were stored when the last call    *)
(* was made.                                                               *)
(***************************************************************************)
EXTENDS Integers, Sequences, FiniteSets, TLC

VARIABLES graph, namespaces, call, log, before

vars == <<graph, namespaces, call, log, before>>

(***************************************************************************)
(* Bounds                                                                  *)
(***************************************************************************)
MaxLog == 3
MaxDocLen == 2
MaxTextLen == 4

(***************************************************************************)
(* Text                                                                    *)
(***************************************************************************)
Empty == <<>>

Range(seq) == {seq[i] : i \in 1..Len(seq)}

Positions(text, sep) == {i \in 1..Len(text) : text[i] = sep}

Max(S) == CHOOSE x \in S : \A y \in S : y <= x

Min(S) == CHOOSE x \in S : \A y \in S : x <= y

\* str::split_once(sep): the parts around the first sep, or none
NoSplit == [found |-> FALSE]

split_once(text, sep) ==
  IF Positions(text, sep) = {} THEN NoSplit
  ELSE LET i == Min(Positions(text, sep))
       IN [found |-> TRUE,
           prefix |-> SubSeq(text, 1, i - 1),
           local |-> SubSeq(text, i + 1, Len(text))]

\* str::split(sep).last(): always some piece, the whole text when sep is absent
split_last(text, sep) ==
  IF Positions(text, sep) = {} THEN text
  ELSE SubSeq(text, Max(Positions(text, sep)) + 1, Len(text))

\* str::contains(word), for a word that is one token
contains(text, word) == \E i \in 1..Len(text) : text[i] = word

\* Option<String>
None == [some |-> FALSE]

Some(v) == [some |-> TRUE, val |-> v]

unwrap_or(opt, default) == IF opt.some THEN opt.val ELSE default

(***************************************************************************)
(* Terms (sophia_api SimpleTerm)                                           *)
(***************************************************************************)
Iri(v) == [kind |-> "Iri", value |-> v, tag |-> Empty]

BlankNode(v) == [kind |-> "BlankNode", value |-> v, tag |-> Empty]

LiteralDatatype(v, dt) == [kind |-> "LiteralDatatype", value |-> v, tag |-> dt]

LiteralLanguage(v, lang) == [kind |-> "LiteralLanguage", value |-> v, tag |-> lang]

\* IRI-reference syntax: a ":" before any "/" or "#" ends a scheme, and "_"
\* is no scheme, so the text of a blank node ("_:b") is no IRI reference.
IsIriRef(text) ==
  LET sp == split_once(text, ":")
  IN \/ ~sp.found
     \/ contains(sp.prefix, "/")
     \/ contains(sp.prefix, "#")
     \/ (Len(sp.prefix) = 1 /\ sp.prefix[1] # "_")

\* text.parse().ok()
parse_iri(text) == IF IsIriRef(text) THEN Some(text) ELSE None

\* text.parse().unwrap_or_else(|_| "".parse().unwrap())
parse_iri_or_empty(text) == unwrap_or(parse_iri(text), Empty)

term_to_string(term) ==
  CASE term.kind = "Iri" -> term.value
    [] term.kind = "LiteralDatatype" -> term.value
    [] term.kind = "LiteralLanguage" -> term.value
    [] term.kind = "BlankNode" -> <<"_", ":">> \o term.value
    [] OTHER -> Empty

term_equals(term1, term2) == term1 = term2

(***************************************************************************)
(* Namespaces seeded by new()                                              *)
(***************************************************************************)
SeededNamespaces ==
  [prefix \in {"sn", "rdf", "rdfs", "owl", "xsd"} |->
     CASE prefix = "sn" ->
            <<"https", ":", "/", "/", "sinople.org", "/", "ontology", "#">>
       [] prefix = "rdf" ->
            <<"https", ":", "/", "/", "www.w3.org", "/", "1999", "/", "02", "/",
              "22-rdf-syntax-ns", "#">>
       [] prefix = "rdfs" ->
            <<"https", ":", "/", "/", "www.w3.org", "/", "2000", "/", "01", "/",
              "rdf-schema", "#">>
       [] prefix = "owl" ->
            <<"https", ":", "/", "/", "www.w3.org", "/", "2002", "/", "07", "/",
              "owl", "#">>
       [] prefix = "xsd" ->
            <<"https", ":", "/", "/", "www.w3.org", "/", "2001", "/",
              "XMLSchema", "#">>]

make_term(namespaced) ==
  LET sp == split_once(namespaced, ":")
  IN IF sp.found /\ Len(sp.prefix) = 1 /\ sp.prefix[1] \in DOMAIN namespaces
     THEN Iri(parse_iri_or_empty(namespaces[sp.prefix[1]] \o sp.local))
     ELSE Iri(parse_iri_or_empty(namespaced))

\* the prefixed names the queries pass to make_term
Q(prefix, local) == <<prefix, ":", local>>

(***************************************************************************)
(* The graph: FastGraph                                                    *)
(***************************************************************************)
NewGraph == [terms |-> <<>>, triples |-> {}]

IndexOf(terms, t) == CHOOSE i \in 1..Len(terms) : terms[i] = t

ensure_index(terms, t) ==
  IF \E i \in 1..Len(terms) : terms[i] = t THEN terms ELSE Append(terms, t)

insert(g, tr) ==
  LET t1 == ensure_index(g.terms, tr.s)
      t2 == ensure_index(t1, tr.p)
      t3 == ensure_index(t2, tr.o)
  IN [terms |-> t3,
      triples |-> g.triples \cup
                  {<<IndexOf(t3, tr.s), IndexOf(t3, tr.p), IndexOf(t3, tr.o)>>}]

RECURSIVE insert_all(_, _)
insert_all(g, trs) ==
  IF trs = <<>> THEN g ELSE insert_all(insert(g, Head(trs)), Tail(trs))

IndexLess(a, b) ==
  \/ a[1] < b[1]
  \/ a[1] = b[1] /\ a[2] < b[2]
  \/ a[1] = b[1] /\ a[2] = b[2] /\ a[3] < b[3]

RECURSIVE Ascending(_)
Ascending(S) ==
  IF S = {} THEN <<>>
  ELSE LET m == CHOOSE x \in S : \A y \in S \ {x} : IndexLess(x, y)
       IN <<m>> \o Ascending(S \ {m})

\* graph.triples(): the stored triples in ascending index order
triples(g) ==
  LET ord == Ascending(g.triples)
  IN [i \in 1..Len(ord) |->
        [s |-> g.terms[ord[i][1]], p |-> g.terms[ord[i][2]], o |-> g.terms[ord[i][3]]]]

StoredTriples == Range(triples(graph))

triple_count == Len(triples(graph))

(***************************************************************************)
(* Private helper methods                                                  *)
(***************************************************************************)
MapSeq(seq, F(_)) == [i \in 1..Len(seq) |-> F(seq[i])]

\* get_object_value as it would be if it kept scanning and returned the last match
get_object_value_last(subject, predicate) ==
  LET parsed == parse_iri(subject)
  IN IF ~parsed.some THEN None
     ELSE LET ts == triples(graph)
              hits == {i \in 1..Len(ts) :
                         /\ term_equals(ts[i].s, Iri(parsed.val))
                         /\ term_equals(ts[i].p, make_term(predicate))}
          IN IF hits = {} THEN None
             ELSE Some(term_to_string(ts[Max(hits)].o))

get_object_value(subject, predicate) ==
  LET parsed == parse_iri(subject)
  IN IF ~parsed.some THEN None
     ELSE LET subject_term == Iri(parsed.val)
              predicate_term == make_term(predicate)
              ts == triples(graph)
              hits == {i \in 1..Len(ts) :
                         /\ term_equals(ts[i].s, subject_term)
                         /\ term_equals(ts[i].p, predicate_term)}
          IN IF hits = {} THEN None
             ELSE Some(term_to_string(ts[Min(hits)].o))

get_glosses(construct_id) ==
  LET subject_term == Iri(parse_iri_or_empty(construct_id))
      has_gloss == make_term(Q("sn", "hasGloss"))
      Match(t) == term_equals(t.s, subject_term) /\ term_equals(t.p, has_gloss)
      Gloss(t) == [id |-> construct_id \o <<"#", "gloss">>,
                   text |-> term_to_string(t.o),
                   language |-> <<"en">>,
                   position |-> None]
  IN MapSeq(SelectSeq(triples(graph), Match), Gloss)

get_relationships(construct_id) ==
  LET has_source == make_term(Q("sn", "hasSource"))
      has_target == make_term(Q("sn", "hasTarget"))
      Match(t) == /\ term_to_string(t.o) = construct_id
                  /\ (term_equals(t.p, has_source) \/ term_equals(t.p, has_target))
      Subject(t) == term_to_string(t.s)
  IN MapSeq(SelectSeq(triples(graph), Match), Subject)

get_character_constructs(character_id) ==
  LET subject_term == Iri(parse_iri_or_empty(character_id))
      has_construct == make_term(Q("sn", "hasConstruct"))
      Match(t) == term_equals(t.s, subject_term) /\ term_equals(t.p, has_construct)
      Object(t) == term_to_string(t.o)
  IN MapSeq(SelectSeq(triples(graph), Match), Object)

extract_local_name(iri) == split_last(iri, "#")

(***************************************************************************)
(* Queries                                                                 *)
(***************************************************************************)
\* the triples (*, rdf:type, sn:<type_name>) in store order
TypedAs(type_name) ==
  LET type_term == make_term(Q("sn", type_name))
      rdf_type == make_term(Q("rdf", "type"))
      Match(t) == term_equals(t.p, rdf_type) /\ term_equals(t.o, type_term)
  IN SelectSeq(triples(graph), Match)

query_constructs ==
  LET Construct(t) ==
        LET subject_iri == term_to_string(t.s)
        IN [id |-> subject_iri,
            label |-> unwrap_or(get_object_value(subject_iri, Q("rdfs", "label")), Empty),
            description |-> get_object_value(subject_iri, Q("rdfs", "comment")),
            glosses |-> get_glosses(subject_iri),
            relationships |-> get_relationships(subject_iri)]
  IN MapSeq(TypedAs("Construct"), Construct)

query_entanglements ==
  LET Entanglement(t) ==
        LET subject_iri == term_to_string(t.s)
        IN [id |-> subject_iri,
            label |-> unwrap_or(get_object_value(subject_iri, Q("rdfs", "label")), Empty),
            source |-> unwrap_or(get_object_value(subject_iri, Q("sn", "hasSource")), Empty),
            target |-> unwrap_or(get_object_value(subject_iri, Q("sn", "hasTarget")), Empty),
            relationship_type |->
              unwrap_or(get_object_value(subject_iri, Q("sn", "relationshipType")),
                        <<"related">>),
            description |-> get_object_value(subject_iri, Q("rdfs", "comment"))]
  IN MapSeq(TypedAs("Entanglement"), Entanglement)

find_relationships(construct_id) == get_relationships(construct_id)

query_characters ==
  LET Character(t) ==
        LET subject_iri == term_to_string(t.s)
        IN [id |-> subject_iri,
            name |-> unwrap_or(get_object_value(subject_iri, Q("rdfs", "label")), Empty),
            description |-> get_object_value(subject_iri, Q("rdfs", "comment")),
            constructs |-> get_character_constructs(subject_iri)]
  IN MapSeq(TypedAs("Character"), Character)

IsTypeTriple(t) == term_equals(t.p, make_term(Q("rdf", "type")))

GraphNode(t) ==
  LET subject_iri == term_to_string(t.s)
      object_iri == term_to_string(t.o)
  IN [id |-> subject_iri,
      label |-> unwrap_or(get_object_value(subject_iri, Q("rdfs", "label")),
                          extract_local_name(subject_iri)),
      node_type |->
        IF contains(object_iri, "Construct") THEN "construct"
        ELSE IF contains(object_iri, "Character") THEN "character"
        ELSE IF contains(object_iri, "Entanglement") THEN "entanglement"
        ELSE "other"]

RECURSIVE OncePerId(_)
OncePerId(nodes) ==
  IF nodes = <<>> THEN <<>>
  ELSE LET front == OncePerId(SubSeq(nodes, 1, Len(nodes) - 1))
           last == nodes[Len(nodes)]
       IN IF \E k \in 1..Len(front) : front[k].id = last.id THEN front
          ELSE Append(front, last)

\* the node pass as it would be if it emitted one node per subject
graph_nodes_dedup == OncePerId(MapSeq(SelectSeq(triples(graph), IsTypeTriple), GraphNode))

graph_nodes == MapSeq(SelectSeq(triples(graph), IsTypeTriple), GraphNode)

graph_edges ==
  LET Source(t) == get_object_value(term_to_string(t.s), Q("sn", "hasSource"))
      Target(t) == get_object_value(term_to_string(t.s), Q("sn", "hasTarget"))
      Both(t) == Source(t).some /\ Target(t).some
      Edge(t) ==
        [source |-> Source(t).val,
         target |-> Target(t).val,
         label |-> unwrap_or(get_object_value(term_to_string(t.s),
                                              Q("sn", "relationshipType")),
                             <<"related">>)]
  IN MapSeq(SelectSeq(TypedAs("Entanglement"), Both), Edge)

generate_network_graph == [nodes |-> graph_nodes, edges |-> graph_edges]

(***************************************************************************)
(* Input data: the triples a Turtle document may hold                      *)
(***************************************************************************)
T(s, p, o) == [s |-> s, p |-> p, o |-> o]

ExA == <<"https", ":", "/", "/", "example.org", "/", "A">>

IriA == Iri(ExA)

IriC == Iri(<<"https", ":", "/", "/", "example.org", "/", "C">>)

BlankB == BlankNode(<<"b">>)

Sn(local) == Iri(SeededNamespaces["sn"] \o <<local>>)

Rdfs(local) == Iri(SeededNamespaces["rdfs"] \o <<local>>)

\* rdf:type as the processor spells it (prefix "rdf" of new())
RdfType == Iri(SeededNamespaces["rdf"] \o <<"type">>)

\* rdf:type as Turtle's keyword "a" spells it
RdfTypeA ==
  Iri(<<"http", ":", "/", "/", "www.w3.org", "/", "1999", "/", "02", "/",
        "22-rdf-syntax-ns", "#", "type">>)

XsdString ==
  <<"http", ":", "/", "/", "www.w3.org", "/", "2001", "/", "XMLSchema", "#", "string">>

Plain(text) == LiteralDatatype(text, XsdString)

Alpha == Plain(<<"Alpha">>)

Beta == LiteralLanguage(<<"Beta">>, <<"en">>)

\* a plain literal whose text is the IRI of A
LitA == Plain(ExA)

\* data about constructs
ConstructData ==
  { T(IriA, RdfType, Sn("Construct")),
    T(IriA, RdfTypeA, Sn("Construct")),
    T(IriA, Rdfs("label"), Alpha),
    T(IriA, Rdfs("label"), Beta),
    T(IriA, Rdfs("comment"), Beta),
    T(IriA, Sn("hasGloss"), Alpha),
    T(BlankB, RdfType, Sn("Construct")),
    T(BlankB, Rdfs("label"), Alpha) }

\* data about entanglements
EntanglementData ==
  { T(IriA, RdfType, Sn("Entanglement")),
    T(IriA, Sn("hasSource"), IriC),
    T(IriA, Sn("hasSource"), IriA),
    T(IriA, Sn("hasTarget"), LitA),
    T(IriA, Sn("relationshipType"), Alpha),
    T(BlankB, RdfType, Sn("Entanglement")),
    T(BlankB, Sn("hasSource"), IriA),
    T(BlankB, Sn("hasTarget"), IriA) }

\* data about characters
CharacterData ==
  { T(IriA, RdfType, Sn("Character")),
    T(IriA, RdfType, Sn("Construct")),
    T(IriA, Rdfs("label"), Alpha),
    T(IriA, Sn("hasConstruct"), IriA) }

\* the loads between two clears draw their triples from one data set
Datasets == {ConstructData, EntanglementData, CharacterData}

Universe == UNION Datasets

\* a document: the triples the parser emits, and whether it then fails
Document(emitted, malformed) == [emitted |-> emitted, malformed |-> malformed]

\* the ids find_relationships is asked about
Ids == {term_to_string(IriA), term_to_string(BlankB)}

(***************************************************************************)
(* State machine                                                           *)
(***************************************************************************)
Called(op, arg, ret) == [op |-> op, arg |-> arg, ret |-> ret]

Init ==
  /\ graph = NewGraph
  /\ namespaces = SeededNamespaces
  /\ call = Called("new", Empty, Empty)
  /\ log = <<>>
  /\ before = {}

\* the graph after load_turtle(doc): parse_all inserts each triple as it is
\* parsed, directly into self.graph
\* load_turtle as it would be if it parsed everything before inserting
loaded_atomic(g, doc) == IF doc.malformed THEN g ELSE insert_all(g, doc.emitted)

\* load_turtle as it would be if it started from a fresh graph
loaded_replacing(g, doc) == insert_all(NewGraph, doc.emitted)

loaded(g, doc) == insert_all(g, doc.emitted)

load_result(doc) == IF doc.malformed THEN "Err" ELSE "Ok"

LoadStep(doc) ==
  /\ graph' = loaded(graph, doc)
  /\ call' = Called("load_turtle", doc, load_result(doc))
  /\ log' = log \o doc.emitted
  /\ before' = StoredTriples
  /\ UNCHANGED namespaces

LoadTurtle ==
  \E data \in Datasets :
    /\ Range(log) \subseteq data
    /\ \E n \in 0..MaxDocLen :
         /\ Len(log) + n <= MaxLog
         /\ \E emitted \in [1..n -> data], malformed \in BOOLEAN :
              LoadStep(Document(emitted, malformed))

\* clear() as it would be if it left the graph alone
cleared_nothing(g) == g

cleared(g) == NewGraph

Clear ==
  /\ graph' = cleared(graph)
  /\ call' = Called("clear", Empty, Empty)
  /\ log' = <<>>
  /\ before' = StoredTriples
  /\ UNCHANGED namespaces

Query(op, arg, ret) ==
  /\ call' = Called(op, arg, ret)
  /\ before' = StoredTriples
  /\ UNCHANGED <<graph, namespaces, log>>

TripleCount == Query("triple_count", Empty, triple_count)

QueryConstructs == Query("query_constructs", Empty, query_constructs)

QueryEntanglements == Query("query_entanglements", Empty, query_entanglements)

QueryCharacters == Query("query_characters", Empty, query_characters)

FindRelationships ==
  \E construct_id \in Ids :
    Query("find_relationships", construct_id, find_relationships(construct_id))

GenerateNetworkGraph == Query("generate_network_graph", Empty, generate_network_graph)

Next ==
  \/ LoadTurtle
  \/ Clear
  \/ TripleCount
  \/ QueryConstructs
  \/ QueryEntanglements
  \/ QueryCharacters
  \/ FindRelationships
  \/ GenerateNetworkGraph

Spec == Init /\ [][Next]_vars

(***************************************************************************)
(* extract_local_name on its own, over every short text                     *)
(***************************************************************************)
Alphabet == {"#", "/", "a", "b"}

Texts == UNION {[1..n -> Alphabet] : n \in 0..MaxTextLen}

ExtractLocalName ==
  \E iri \in Texts : Query("extract_local_name", iri, extract_local_name(iri))

NextLocalName == ExtractLocalName

SpecLocalName == Init /\ [][NextLocalName]_vars

(***************************************************************************)
(* Vocabulary of the properties, read off the insertion log and the stored  *)
(* triples, not off the query code                                          *)
(***************************************************************************)
Loaded(op) == call.op = op

\* the prefixed names of the single-valued properties the views read
ViewPredicates ==
  {Q("rdfs", "label"), Q("rdfs", "comment"), Q("sn", "hasSource"),
   Q("sn", "hasTarget"), Q("sn", "relationshipType")}

\* the term a prefixed name of the views denotes in the data
Denotes(q) == IF q[1] = "rdfs" THEN Rdfs(q[3]) ELSE Sn(q[3])

Subjects == {t.s : t \in Universe}

\* position of the first occurrence of a term in the inserted triples, read
\* subject, predicate, object
TermAt(n) ==
  LET t == log[((n - 1) \div 3) + 1]
      k == (n - 1) % 3
  IN IF k = 0 THEN t.s ELSE IF k = 1 THEN t.p ELSE t.o

FirstSeen(term) == Min({n \in 1..(3 * Len(log)) : TermAt(n) = term})

\* objects inserted for (s, p, *)
ObjectsOf(s, p) == {t.o : t \in {u \in Range(log) : u.s = s /\ u.p = p}}

StoredObjectsOf(s, p) == {t.o : t \in {u \in StoredTriples : u.s = s /\ u.p = p}}

\* the object of the first inserted (s, p, *) triple
FirstInserted(s, p) ==
  log[Min({i \in 1..Len(log) : log[i].s = s /\ log[i].p = p})].o

\* the object of (s, p, *) whose term occurred first in the input
FirstInterned(s, p) ==
  CHOOSE o \in ObjectsOf(s, p) : \A o2 \in ObjectsOf(s, p) : FirstSeen(o) <= FirstSeen(o2)

(***************************************************************************)
(* C1                                                                      *)
(***************************************************************************)
\* C1 (as claimed): whenever (s, p, o1) was inserted before (s, p, o2) with
\* o1 # o2, whatever else was inserted, get_object_value(s, p) returns the
\* string of o1, the first inserted.
C1InsertionOrder ==
  \A s \in Subjects, q \in ViewPredicates :
    Cardinality(ObjectsOf(s, Denotes(q))) >= 2 =>
      get_object_value(term_to_string(s), q)
        = Some(term_to_string(FirstInserted(s, Denotes(q))))

\* the value the first-interned rule gives for the subject with text x
Expected(x, q) ==
  IF ObjectsOf(Iri(x), Denotes(q)) = {} THEN None
  ELSE Some(term_to_string(FirstInterned(Iri(x), Denotes(q))))

\* C1 (amended): get_object_value(x, p) returns the string of the object,
\* among the inserted triples (Iri(x), p, *), whose term occurred first in
\* the input since creation or the last clear (none when there is no such
\* triple); the view fields built from it show that value.
C1IndexOrder ==
  /\ \A x \in {term_to_string(s) : s \in Subjects}, q \in ViewPredicates :
       get_object_value(x, q) = Expected(x, q)
  /\ Loaded("query_constructs") =>
       \A k \in 1..Len(call.ret) :
         LET r == call.ret[k]
         IN /\ r.label = unwrap_or(Expected(r.id, Q("rdfs", "label")), Empty)
            /\ r.description = Expected(r.id, Q("rdfs", "comment"))
  /\ Loaded("query_entanglements") =>
       \A k \in 1..Len(call.ret) :
         LET r == call.ret[k]
         IN /\ r.label = unwrap_or(Expected(r.id, Q("rdfs", "label")), Empty)
            /\ r.description = Expected(r.id, Q("rdfs", "comment"))
            /\ r.source = unwrap_or(Expected(r.id, Q("sn", "hasSource")), Empty)
            /\ r.target = unwrap_or(Expected(r.id, Q("sn", "hasTarget")), Empty)
            /\ r.relationship_type
                 = unwrap_or(Expected(r.id, Q("sn", "relationshipType")), <<"related">>)

\* two sources of A are stored, the second inserted one carries the term seen
\* first, and query_entanglements has shown it
C1Witness ==
  /\ Loaded("query_entanglements")
  /\ Cardinality(ObjectsOf(IriA, Sn("hasSource"))) = 2
  /\ FirstInserted(IriA, Sn("hasSource")) # FirstInterned(IriA, Sn("hasSource"))
  /\ \E k \in 1..Len(call.ret) :
       /\ call.ret[k].id = ExA
       /\ call.ret[k].source = term_to_string(FirstInterned(IriA, Sn("hasSource")))

(***************************************************************************)
(* C2                                                                      *)
(***************************************************************************)
FailedLoad == Loaded("load_turtle") /\ call.ret = "Err"

SuccessfulLoad == Loaded("load_turtle") /\ call.ret = "Ok"

\* C2 (as claimed): a load that returns Err leaves the stored triples and
\* triple_count exactly as they were before the call.
C2Atomic ==
  FailedLoad => (StoredTriples = before /\ triple_count = Cardinality(before))

\* C2 (amended): a load that returns Err removes nothing and adds exactly the
\* triples the parser emitted before the malformed part.
C2Partial ==
  FailedLoad =>
    /\ StoredTriples = before \cup Range(call.arg.emitted)
    /\ triple_count = Cardinality(before \cup Range(call.arg.emitted))

\* a failed load on top of earlier content, with a well-formed new triple
\* before the malformed part: the new triple is in the store
C2Witness ==
  /\ FailedLoad
  /\ before # {}
  /\ \E t \in Range(call.arg.emitted) : t \notin before /\ t \in StoredTriples

(***************************************************************************)
(* C3                                                                      *)
(***************************************************************************)
\* C3 (as claimed): a successful load keeps every stored triple and raises
\* triple_count by the number of triples it supplies, so that the count is
\* the total supplied since creation or the last clear.
C3CountsSupplied ==
  SuccessfulLoad =>
    /\ before \subseteq StoredTriples
    /\ triple_count = Cardinality(before) + Len(call.arg.emitted)

\* C3 (amended): a successful load keeps every stored triple and adds the
\* supplied triples that are not yet stored, each once: triple_count is the
\* number of distinct triples stored before or supplied.
C3CountsDistinct ==
  SuccessfulLoad =>
    /\ before \subseteq StoredTriples
    /\ StoredTriples = before \cup Range(call.arg.emitted)
    /\ triple_count = Cardinality(before \cup Range(call.arg.emitted))

\* a successful load on top of earlier content, supplying a new triple and
\* one already stored: both loads' triples are there, the repeated one once
C3Witness ==
  /\ SuccessfulLoad
  /\ before # {}
  /\ \E t \in Range(call.arg.emitted) : t \in before
  /\ \E t \in Range(call.arg.emitted) : t \notin before
  /\ triple_count < Cardinality(before) + Len(call.arg.emitted)

(***************************************************************************)
(* C4                                                                      *)
(***************************************************************************)
EmptyAnswer(op) ==
  CASE op = "triple_count" -> 0
    [] op = "generate_network_graph" -> [nodes |-> <<>>, edges |-> <<>>]
    [] OTHER -> <<>>

Queries ==
  {"triple_count", "query_constructs", "query_entanglements", "query_characters",
   "find_relationships", "generate_network_graph"}

\* C4: when nothing has been inserted since creation or the last clear(),
\* triple_count() is 0 and every query returns an empty result.
C4EmptyStore ==
  log = <<>> =>
    /\ StoredTriples = {}
    /\ triple_count = 0
    /\ query_constructs = <<>>
    /\ query_entanglements = <<>>
    /\ query_characters = <<>>
    /\ \A id \in Ids : find_relationships(id) = <<>>
    /\ generate_network_graph = [nodes |-> <<>>, edges |-> <<>>]
    /\ call.op \in Queries => call.ret = EmptyAnswer(call.op)

\* clear() has just run on a store that held triples
C4Witness == Loaded("clear") /\ before # {} /\ log = <<>> /\ triple_count = 0

(***************************************************************************)
(* C5                                                                      *)
(***************************************************************************)
\* C5 (as claimed): a stored triple (A, rdf:type as Turtle's "a" spells it,
\* sn:Construct) makes query_constructs return a record with id A.
C5StandardType ==
  Loaded("query_constructs") =>
    \A t \in StoredTriples :
      (t.p = RdfTypeA /\ t.o = Sn("Construct")) =>
        \E k \in 1..Len(call.ret) : call.ret[k].id = term_to_string(t.s)

(***************************************************************************)
(* C6                                                                      *)
(***************************************************************************)
\* C6 (as claimed): every subject find_relationships(construct_id) returns
\* is the subject of a stored triple whose predicate is sn:hasSource or
\* sn:hasTarget and whose object is the IRI term construct_id.
C6TermEquality ==
  Loaded("find_relationships") =>
    \A k \in 1..Len(call.ret) :
      \E t \in StoredTriples :
        /\ term_to_string(t.s) = call.ret[k]
        /\ t.p \in {Sn("hasSource"), Sn("hasTarget")}
        /\ t.o = Iri(call.arg)

(***************************************************************************)
(* C7                                                                      *)
(***************************************************************************)
TypeTriples == {t \in StoredTriples : t.p = RdfType}

Strings(terms) == {term_to_string(o) : o \in terms}

\* C8 (as claimed): for every stored (s, rdf:type, sn:Construct), s an IRI or
\* a blank node, query_constructs has a record whose label is the object of
\* a stored (s, rdfs:label, *) when one exists and empty otherwise, whose
\* description is likewise from (s, rdfs:comment, *), and whose glosses are
\* as many as the stored (s, sn:hasGloss, *).
C8AnySubject ==
  Loaded("query_constructs") =>
    \A s \in Subjects :
      T(s, RdfType, Sn("Construct")) \in StoredTriples =>
        \E k \in 1..Len(call.ret) :
          LET r == call.ret[k]
              labels == StoredObjectsOf(s, Rdfs("label"))
              comments == StoredObjectsOf(s, Rdfs("comment"))
          IN /\ r.id = term_to_string(s)
             /\ IF labels = {} THEN r.label = Empty ELSE r.label \in Strings(labels)
             /\ IF comments = {} THEN r.description = None
                ELSE r.description.some /\ r.description.val \in Strings(comments)
             /\ Len(r.glosses) = Cardinality(StoredObjectsOf(s, Sn("hasGloss")))

(***************************************************************************)
(* C9                                                                      *)
(***************************************************************************)
AfterLast(text, sep) == SubSeq(text, Max(Positions(text, sep)) + 1, Len(text))

\* C9 (as claimed): extract_local_name returns what follows the last "#"
\* when there is a "#", else what follows the last "/" when there is a "/",
\* else the whole text.
C9LocalName ==
  Loaded("extract_local_name") =>
    call.ret = IF contains(call.arg, "#") THEN AfterLast(call.arg, "#")
               ELSE IF contains(call.arg, "/") THEN AfterLast(call.arg, "/")
               ELSE call.arg

(***************************************************************************)
(* C10                                                                     *)
(***************************************************************************)
Entanglements == {s \in Subjects : T(s, RdfType, Sn("Entanglement")) \in StoredTriples}

Linked ==
  {e \in Entanglements :
     /\ StoredObjectsOf(e, Sn("hasSource")) # {}
     /\ StoredObjectsOf(e, Sn("hasTarget")) # {}}

\* C10 (as claimed): generate_network_graph has an edge for an entanglement
\* exactly when a source and a target of it are stored, labelled with a
\* stored relationship type of it or "related"; query_entanglements lists
\* every entanglement, a missing endpoint as the empty string.
C10Edges ==
  /\ Loaded("generate_network_graph") =>
       /\ Len(call.ret.edges) = Cardinality(Linked)
       /\ \A e \in Linked :
            \E k \in 1..Len(call.ret.edges) :
              LET edge == call.ret.edges[k]
                  kinds == StoredObjectsOf(e, Sn("relationshipType"))
              IN /\ edge.source \in Strings(StoredObjectsOf(e, Sn("hasSource")))
                 /\ edge.target \in Strings(StoredObjectsOf(e, Sn("hasTarget")))
                 /\ IF kinds = {} THEN edge.label = <<"related">>
                    ELSE edge.label \in Strings(kinds)
  /\ Loaded("query_entanglements") =>
       \A e \in Entanglements :
         \E k \in 1..Len(call.ret) :
           LET r == call.ret[k]
           IN /\ r.id = term_to_string(e)
              /\ StoredObjectsOf(e, Sn("hasSource")) = {} => r.source = Empty
              /\ StoredObjectsOf(e, Sn("hasTarget")) = {} => r.target = Empty

====
